---- MODULE Spec2Model ----
(***************************************************************************)
(* The XYZ tile handler of src/functions/handler.ts: the request pipeline  *)
(* of `tile` / `fetchTiffData` (specification Spec) and its pure functions *)
(* tileToWebMercator, getResolution, webMercatorToPixel and the            *)
(* interleaving loop of convertRastersToPng (specification SpecFn).        *)
(*                                                                         *)
(* Numbers.  A JavaScript number is modelled as a record                   *)
(* [nan, v]: either NaN or an exact integer v.  Lengths are counted in     *)
(* model units chosen so that every quotient the code forms is exact:      *)
(* webMercatorExtent (20037508.3427892 m in the source) is 16 units and    *)
(* tileSize (256 px in the source) is 2 px, so the resolution              *)
(* 2*extent/(tileSize*2^z) is a whole number of units up to zoom 4.        *)
(* IEEE-754 rounding of the source's doubles is not modelled.              *)
(***************************************************************************)
EXTENDS Integers, Sequences, FiniteSets, TLC

VARIABLES pc, event, webMercatorBbox, image, readWindow, rasters,
          rgbaBuffer, pngBuffer, response, started, failed, call

vars == <<pc, event, webMercatorBbox, image, readWindow, rasters,
          rgbaBuffer, pngBuffer, response, started, failed, call>>

(* ------------------------------ constants ------------------------------ *)

tileSize == 2

webMercatorExtent == 16

Alpha == 0

(* ------------------------------- bounds -------------------------------- *)

\* most bands the raster read returns in the pipeline
MaxBands == 4

\* longest band of a raster read that ignores the window (tileSize^2 + 1)
MaxBandLen == 5

\* SpecFn: zoom levels 0..MaxZoom
MaxZoom == 3

\* SpecFn: tile columns and rows -MaxTile..MaxTile
MaxTile == 3

\* SpecFn: bounding-box coordinates -MaxCoord..MaxCoord
MaxCoord == 3

\* SpecFn: raster width and height 0..MaxRaster
MaxRaster == 2

\* SpecFn: width*height of the composited image 0..MaxPixels
MaxPixels == 3

(* --------------------------- JavaScript numbers ------------------------ *)

NaN == [nan |-> TRUE, v |-> 0]

Num(n) == [nan |-> FALSE, v |-> n]

Add(a, b) == IF a.nan \/ b.nan THEN NaN ELSE Num(a.v + b.v)

Sub(a, b) == IF a.nan \/ b.nan THEN NaN ELSE Num(a.v - b.v)

Mul(a, b) == IF a.nan \/ b.nan THEN NaN ELSE Num(a.v * b.v)

\* Math.min / Math.max: NaN if either argument is NaN
MathMin(a, b) == IF a.nan \/ b.nan THEN NaN ELSE IF a.v <= b.v THEN a ELSE b

MathMax(a, b) == IF a.nan \/ b.nan THEN NaN ELSE IF a.v >= b.v THEN a ELSE b

RECURSIVE Pow2(_)
Pow2(k) == IF k <= 0 THEN 1 ELSE 2 * Pow2(k - 1)

\* Math.round(a / r) for a resolution r = n/d with n > 0: the nearest integer,
\* halves towards +Infinity; a quotient by Infinity (d = 0) is 0.
MathRoundDiv(a, r) ==
    IF a.nan THEN NaN
    ELSE IF r.d = 0 THEN Num(0)
    ELSE Num((2 * a.v * r.d + r.n) \div (2 * r.n))

(* -------------------------------- parseInt ----------------------------- *)
\* A string is a sequence of one-character strings.

DigitChars == <<"0", "1", "2", "3", "4", "5", "6", "7", "8", "9">>

IsDigit(c) == \E d \in 1..Len(DigitChars) : DigitChars[d] = c

DigitVal(c) == (CHOOSE d \in 1..Len(DigitChars) : DigitChars[d] = c) - 1

RECURSIVE ParseDigits(_, _)
ParseDigits(s, acc) ==
    IF s = <<>> \/ ~IsDigit(Head(s)) THEN acc
    ELSE ParseDigits(Tail(s), 10 * acc + DigitVal(Head(s)))

RECURSIVE SkipWhite(_)
SkipWhite(s) == IF s # <<>> /\ Head(s) = " " THEN SkipWhite(Tail(s)) ELSE s

\* parseInt(s), radix 10: leading blanks, an optional sign, then the longest
\* run of digits; whatever follows is ignored; NaN when there is no digit.
parseInt(s) ==
    LET t == SkipWhite(s)
        signed == t # <<>> /\ Head(t) \in {"-", "+"}
        u == IF signed THEN Tail(t) ELSE t
        sign == IF signed /\ Head(t) = "-" THEN -1 ELSE 1
    IN IF u = <<>> \/ ~IsDigit(Head(u)) THEN NaN
       ELSE Num(sign * ParseDigits(u, 0))

(* ------------------------------ tile addressing ------------------------ *)

\* (2 * webMercatorExtent) / (tileSize * Math.pow(2, z))
getResolution(z) ==
    IF z.nan THEN NaN
    ELSE IF z.v >= 0
         THEN Num((2 * webMercatorExtent) \div (tileSize * Pow2(z.v)))
         ELSE Num((2 * webMercatorExtent * Pow2(-z.v)) \div tileSize)

\* the part_000-style slip: rows counted upwards from the origin
tileToWebMercator_noflip(x, y, z) ==
    LET resolution == getResolution(z)
        minX == Sub(Mul(Mul(x, Num(tileSize)), resolution), Num(webMercatorExtent))
        minY == Sub(Mul(Mul(y, Num(tileSize)), resolution), Num(webMercatorExtent))
        maxX == Sub(Mul(Mul(Add(x, Num(1)), Num(tileSize)), resolution), Num(webMercatorExtent))
        maxY == Sub(Mul(Mul(Add(y, Num(1)), Num(tileSize)), resolution), Num(webMercatorExtent))
    IN <<minX, minY, maxX, maxY>>

tileToWebMercator(x, y, z) ==
    LET resolution == getResolution(z)
        minX == Sub(Mul(Mul(x, Num(tileSize)), resolution), Num(webMercatorExtent))
        maxY == Sub(Num(webMercatorExtent), Mul(Mul(y, Num(tileSize)), resolution))
        maxX == Sub(Mul(Mul(Add(x, Num(1)), Num(tileSize)), resolution), Num(webMercatorExtent))
        minY == Sub(Num(webMercatorExtent), Mul(Mul(Add(y, Num(1)), Num(tileSize)), resolution))
    IN <<minX, minY, maxX, maxY>>

(* ------------------------------ window resolver ------------------------ *)
\* An image is [width, height, origin, hasGetResolution, resolution, hasGeo].

\* image.getResolution ? image.getResolution() : webMercatorExtent * 2 / imageWidth
\* as the exact fraction n/d
imageResolutionOf(img) ==
    IF img.hasGetResolution THEN [n |-> img.resolution, d |-> 1]
    ELSE [n |-> webMercatorExtent * 2, d |-> img.width]

\* a slip: the bounds are rounded but never clamped to the image
webMercatorToPixel_noclamp(bbox, img) ==
    LET imageResolution == imageResolutionOf(img)
    IN << MathRoundDiv(Sub(bbox[1], Num(img.origin[1])), imageResolution),
          MathRoundDiv(Sub(Num(img.origin[2]), bbox[4]), imageResolution),
          MathRoundDiv(Sub(bbox[3], Num(img.origin[1])), imageResolution),
          MathRoundDiv(Sub(Num(img.origin[2]), bbox[2]), imageResolution) >>

\* a slip: the vertical axis is not inverted
webMercatorToPixel_noflip(bbox, img) ==
    LET imageResolution == imageResolutionOf(img)
        clampX(p) == MathMax(Num(0), MathMin(p, Num(img.width)))
        clampY(p) == MathMax(Num(0), MathMin(p, Num(img.height)))
    IN << clampX(MathRoundDiv(Sub(bbox[1], Num(img.origin[1])), imageResolution)),
          clampY(MathRoundDiv(Sub(bbox[2], Num(img.origin[2])), imageResolution)),
          clampX(MathRoundDiv(Sub(bbox[3], Num(img.origin[1])), imageResolution)),
          clampY(MathRoundDiv(Sub(bbox[4], Num(img.origin[2])), imageResolution)) >>

webMercatorToPixel(bbox, img) ==
    LET minX == bbox[1]
        minY == bbox[2]
        maxX == bbox[3]
        maxY == bbox[4]
        imageWidth == Num(img.width)
        imageHeight == Num(img.height)
        imageMinX == Num(img.origin[1])
        imageMaxY == Num(img.origin[2])
        imageResolution == imageResolutionOf(img)
        pixelMinX == MathRoundDiv(Sub(minX, imageMinX), imageResolution)
        pixelMaxY == MathRoundDiv(Sub(imageMaxY, minY), imageResolution)
        pixelMaxX == MathRoundDiv(Sub(maxX, imageMinX), imageResolution)
        pixelMinY == MathRoundDiv(Sub(imageMaxY, maxY), imageResolution)
        boundedPixelMinX == MathMax(Num(0), MathMin(pixelMinX, imageWidth))
        boundedPixelMaxX == MathMax(Num(0), MathMin(pixelMaxX, imageWidth))
        boundedPixelMinY == MathMax(Num(0), MathMin(pixelMinY, imageHeight))
        boundedPixelMaxY == MathMax(Num(0), MathMin(pixelMaxY, imageHeight))
    IN <<boundedPixelMinX, boundedPixelMinY, boundedPixelMaxX, boundedPixelMaxY>>

(* -------------------------------- compositor --------------------------- *)
\* rasters is a function 0..nBands-1 -> band, a band a function 0..len-1 ->
\* sample; a buffer is a function 0..len-1 -> byte.

NumBands(r) == Cardinality(DOMAIN r)

BandLen(band) == Cardinality(DOMAIN band)

\* buffer[j] = value: a number is stored modulo 256, undefined (a read past the
\* end of a band) as 0
ToByte(band, i) == IF i \in DOMAIN band THEN band[i] % 256 ELSE 0

\* a slip: green and blue swapped, alpha taken from the pixel index
convertRastersToPng_swapped(r, width, height) ==
    IF width * height > 0 /\ NumBands(r) < 3
    THEN [ok |-> FALSE, error |-> "TypeError", rgbaBuffer |-> <<>>]
    ELSE [ok |-> TRUE, error |-> "none",
          rgbaBuffer |-> [j \in 0..(width * height * 4 - 1) |->
              IF j % 4 = 3 THEN (j \div 4) % 2
              ELSE ToByte(r[(3 - (j % 4)) % 3], j \div 4)]]

\* a slip: a missing band is read as zeros instead of throwing
convertRastersToPng_guess(r, width, height) ==
    [ok |-> TRUE, error |-> "none",
     rgbaBuffer |-> [j \in 0..(width * height * 4 - 1) |->
         IF j % 4 = 3 THEN Alpha
         ELSE IF (j % 4) \in DOMAIN r THEN ToByte(r[j % 4], j \div 4) ELSE 0]]

\* The loop of convertRastersToPng.  rasters[k][i] with rasters[k] undefined
\* throws a TypeError on the first iteration; the loop body never runs when
\* width * height = 0.
convertRastersToPng(r, width, height) ==
    IF width * height > 0 /\ NumBands(r) < 3
    THEN [ok |-> FALSE, error |-> "TypeError", rgbaBuffer |-> <<>>]
    ELSE [ok |-> TRUE, error |-> "none",
          rgbaBuffer |-> [j \in 0..(width * height * 4 - 1) |->
              IF j % 4 = 3 THEN Alpha
              ELSE ToByte(r[j % 4], j \div 4)]]

\* sharp(rgbaBuffer, {raw: {width, height, channels: 4}}).png().toBuffer()
Png(buffer, width, height) ==
    [encoded |-> TRUE, raw |-> buffer, width |-> width, height |-> height, channels |-> 4]

NoPng == [encoded |-> FALSE, raw |-> <<>>, width |-> 0, height |-> 0, channels |-> 0]

(* -------------------------------- responses ---------------------------- *)

NoResponse == [statusCode |-> 0, contentType |-> "none", body |-> NoPng, error |-> "none"]

\* the return of the try block
OkResponse(buffer, contentType) ==
    [statusCode |-> 200, contentType |-> contentType, body |-> buffer, error |-> "none"]

\* a slip: the catch block answers with an empty image
ErrorResponse_default(error) ==
    [statusCode |-> 200, contentType |-> "image/png", body |-> NoPng, error |-> "none"]

\* the return of the catch block: `An error occurred ${error}`
ErrorResponse(error) ==
    [statusCode |-> 500, contentType |-> "none", body |-> NoPng, error |-> error]

(* --------------------------- inputs of a request ----------------------- *)

\* the values API Gateway may put in a path parameter
PathStrings ==
    { <<"0">>, <<"1">>, <<"2">>, <<"-", "1">>, <<"1", ".", "5">>, <<"a", "b", "c">> }

NullParameters == [null |-> TRUE, z |-> <<>>, x |-> <<>>, y |-> <<>>]

\* event.pathParameters: null, or the three strings z, x, y
Events ==
    { [pathParameters |-> NullParameters] } \cup
    { [pathParameters |-> [null |-> FALSE, z |-> sz, x |-> sx, y |-> sy]] :
        sz \in PathStrings, sx \in PathStrings, sy \in PathStrings }

NoImage ==
    [width |-> 0, height |-> 0, origin |-> <<0, 0>>, hasGetResolution |-> FALSE,
     resolution |-> 0, hasGeo |-> FALSE]

\* what tiff.getImage() may resolve to: a raster of the whole projected plane,
\* one of its north-east quarter, one whose accessor has no getResolution, and
\* one without georeferencing (its getBoundingBox throws)
Images ==
    { [width |-> 2, height |-> 2, origin |-> <<-webMercatorExtent, webMercatorExtent>>,
       hasGetResolution |-> TRUE, resolution |-> webMercatorExtent, hasGeo |-> TRUE],
      [width |-> 2, height |-> 2, origin |-> <<0, webMercatorExtent>>,
       hasGetResolution |-> TRUE, resolution |-> webMercatorExtent \div 2, hasGeo |-> TRUE],
      [width |-> 4, height |-> 4, origin |-> <<-webMercatorExtent, webMercatorExtent>>,
       hasGetResolution |-> FALSE, resolution |-> 0, hasGeo |-> TRUE],
      [width |-> 2, height |-> 2, origin |-> <<0, 0>>,
       hasGetResolution |-> TRUE, resolution |-> 1, hasGeo |-> FALSE] }

\* band b of a read: n samples, told apart by band and by index
MkBand(b, n) == [i \in 0..(n - 1) |-> 10 * (b + 1) + i]

MkRasters(nb, n) == [b \in 0..(nb - 1) |-> MkBand(b, n)]

\* width * height of a window with numeric bounds
WindowArea(w) == (w[3].v - w[1].v) * (w[4].v - w[2].v)

\* what image.readRasters({ window }) may resolve to: any number of bands, each
\* of the window's width * height samples or of any other length
RasterReads(w) ==
    { MkRasters(nb, n) : nb \in 0..MaxBands, n \in 0..MaxBandLen } \cup
    IF (\A i \in 1..Len(w) : ~w[i].nan) /\ WindowArea(w) > 0
    THEN { MkRasters(nb, WindowArea(w)) : nb \in 0..MaxBands }
    ELSE {}

NoCall == [fn |-> "none", done |-> FALSE, args |-> <<>>, result |-> <<>>]

(* ------------------------------ the request ---------------------------- *)

Init ==
    /\ pc = "start"
    /\ event \in Events
    /\ webMercatorBbox = <<>>
    /\ image = NoImage
    /\ readWindow = <<>>
    /\ rasters = <<>>
    /\ rgbaBuffer = <<>>
    /\ pngBuffer = NoPng
    /\ response = NoResponse
    /\ started = <<>>
    /\ failed = "none"
    /\ call = NoCall

\* a throw or a rejected await inside the try block: the catch block returns
Catch(step, error) ==
    /\ failed' = step
    /\ response' = ErrorResponse(error)
    /\ pc' = "done"

\* tile, up to the first await: destructure event.pathParameters, parse x, y
\* and z, compute the bounding box, call fetchTiffData (await import('geotiff'))
TileStart ==
    /\ pc = "start"
    /\ \/ /\ event.pathParameters.null
          /\ started' = Append(started, "address")
          /\ Catch("address", "TypeError")
          /\ UNCHANGED webMercatorBbox
       \/ /\ ~event.pathParameters.null
          /\ webMercatorBbox' = tileToWebMercator(parseInt(event.pathParameters.x),
                                                  parseInt(event.pathParameters.y),
                                                  parseInt(event.pathParameters.z))
          /\ started' = started \o <<"address", "import">>
          /\ pc' = "import"
          /\ UNCHANGED <<failed, response>>
    /\ UNCHANGED <<event, image, readWindow, rasters, rgbaBuffer, pngBuffer, call>>

\* await import('geotiff') settles; on success getSignedUrl is called
ImportGeotiff ==
    /\ pc = "import"
    /\ \/ /\ pc' = "signedUrl"
          /\ started' = Append(started, "signedUrl")
          /\ UNCHANGED <<failed, response>>
       \/ /\ Catch("import", "ImportError")
          /\ UNCHANGED started
    /\ UNCHANGED <<event, webMercatorBbox, image, readWindow, rasters, rgbaBuffer,
                   pngBuffer, call>>

\* await getSignedUrl(...) settles; on success fromUrl(url) is called
GetSignedUrl ==
    /\ pc = "signedUrl"
    /\ \/ /\ pc' = "fromUrl"
          /\ started' = Append(started, "fromUrl")
          /\ UNCHANGED <<failed, response>>
       \/ /\ Catch("signedUrl", "SignedUrlError")
          /\ UNCHANGED started
    /\ UNCHANGED <<event, webMercatorBbox, image, readWindow, rasters, rgbaBuffer,
                   pngBuffer, call>>

\* await fromUrl(url) settles; on success tiff.getImage() is called
FromUrl ==
    /\ pc = "fromUrl"
    /\ \/ /\ pc' = "getImage"
          /\ started' = Append(started, "getImage")
          /\ UNCHANGED <<failed, response>>
       \/ /\ Catch("fromUrl", "FromUrlError")
          /\ UNCHANGED started
    /\ UNCHANGED <<event, webMercatorBbox, image, readWindow, rasters, rgbaBuffer,
                   pngBuffer, call>>

\* await tiff.getImage() settles; on success the metadata is logged
\* (getBoundingBox throws on an image without georeferencing) and
\* image.readRasters({ window: bbox }) is called with the projected box
GetImage ==
    /\ pc = "getImage"
    /\ \/ \E img \in Images :
            /\ image' = img
            /\ \/ /\ img.hasGeo
                  /\ readWindow' = webMercatorBbox
                  /\ started' = Append(started, "readRasters")
                  /\ pc' = "readRasters"
                  /\ UNCHANGED <<failed, response>>
               \/ /\ ~img.hasGeo
                  /\ Catch("getImage", "Error")
                  /\ UNCHANGED <<readWindow, started>>
       \/ /\ Catch("getImage", "GetImageError")
          /\ UNCHANGED <<image, readWindow, started>>
    /\ UNCHANGED <<event, webMercatorBbox, rasters, rgbaBuffer, pngBuffer, call>>

\* await image.readRasters(...) settles; on success convertRastersToPng runs
\* its loop over tileSize * tileSize pixels and hands the buffer to sharp
ReadRasters ==
    /\ pc = "readRasters"
    /\ \/ \E r \in RasterReads(readWindow) :
            LET c == convertRastersToPng(r, tileSize, tileSize) IN
            /\ rasters' = r
            /\ \/ /\ c.ok
                  /\ rgbaBuffer' = c.rgbaBuffer
                  /\ started' = started \o <<"composite", "sharp">>
                  /\ pc' = "sharp"
                  /\ UNCHANGED <<failed, response>>
               \/ /\ ~c.ok
                  /\ started' = Append(started, "composite")
                  /\ Catch("composite", c.error)
                  /\ UNCHANGED rgbaBuffer
       \/ /\ Catch("readRasters", "ReadRastersError")
          /\ UNCHANGED <<rasters, rgbaBuffer, started>>
    /\ UNCHANGED <<event, webMercatorBbox, image, readWindow, pngBuffer, call>>

\* await sharp(...).png().toBuffer() settles; on success fetchTiffData returns
\* { buffer, contentType: "image/png" } and tile returns the 200 response
Sharp ==
    /\ pc = "sharp"
    /\ \/ /\ pngBuffer' = Png(rgbaBuffer, tileSize, tileSize)
          /\ response' = OkResponse(pngBuffer', "image/png")
          /\ pc' = "done"
          /\ UNCHANGED failed
       \/ /\ Catch("sharp", "SharpError")
          /\ UNCHANGED pngBuffer
    /\ UNCHANGED <<event, webMercatorBbox, image, readWindow, rasters, rgbaBuffer,
                   started, call>>

Next ==
    \/ TileStart
    \/ ImportGeotiff
    \/ GetSignedUrl
    \/ FromUrl
    \/ GetImage
    \/ ReadRasters
    \/ Sharp

Spec == Init /\ [][Next]_vars

(* ------------------- the pure functions, called directly --------------- *)

\* projected coordinates the bounding boxes are drawn from
Coords == { 8 * k : k \in -MaxCoord..MaxCoord }

\* bounding boxes with minX < maxX and minY < maxY
BBoxes ==
    { b \in { <<Num(x1), Num(y1), Num(x2), Num(y2)>> :
                x1 \in Coords, y1 \in Coords, x2 \in Coords, y2 \in Coords } :
        b[1].v < b[3].v /\ b[2].v < b[4].v }

\* raster geometries: every width and height, two origins, three resolutions
\* and (resolution 0) the accessor without getResolution
FnImages ==
    { [width |-> w, height |-> h, origin |-> o, hasGetResolution |-> res > 0,
       resolution |-> res, hasGeo |-> TRUE] :
        w \in 0..MaxRaster, h \in 0..MaxRaster,
        o \in { <<-16, 16>>, <<-8, 24>> }, res \in {0, 8, 12, 16} }

\* 8-bit samples
Samples == {7, 255}

TileCall(x, y, z) ==
    [fn |-> "tileToWebMercator", done |-> FALSE, args |-> <<x, y, z>>, result |-> <<>>]

WindowCall(b, img) ==
    [fn |-> "webMercatorToPixel", done |-> FALSE, args |-> <<b, img>>, result |-> <<>>]

ConvertCall(r, width, height) ==
    [fn |-> "convertRastersToPng", done |-> FALSE, args |-> <<r, width, height>>,
     result |-> <<>>]

\* the widths and heights of the composited image
Dims == { d \in (0..MaxPixels) \X (0..MaxPixels) : d[1] * d[2] <= MaxPixels }

InitFn ==
    /\ pc = "idle"
    /\ event = [pathParameters |-> NullParameters]
    /\ webMercatorBbox = <<>>
    /\ image = NoImage
    /\ readWindow = <<>>
    /\ rasters = <<>>
    /\ rgbaBuffer = <<>>
    /\ pngBuffer = NoPng
    /\ response = NoResponse
    /\ started = <<>>
    /\ failed = "none"
    /\ \/ \E x \in -MaxTile..MaxTile, y \in -MaxTile..MaxTile, z \in -1..MaxZoom :
             call = TileCall(x, y, z)
       \/ \E b \in BBoxes, img \in FnImages :
             call = WindowCall(b, img)
       \/ \E d \in Dims :
             \E r \in [0..2 -> [0..(d[1] * d[2] - 1) -> Samples]] :
                call = ConvertCall(r, d[1], d[2])

pipelineVars ==
    <<pc, event, webMercatorBbox, image, readWindow, rasters, rgbaBuffer, pngBuffer,
      response, started, failed>>

CallTileToWebMercator ==
    /\ call.fn = "tileToWebMercator" /\ ~call.done
    /\ call' = [call EXCEPT !.done = TRUE,
                            !.result = tileToWebMercator(Num(call.args[1]), Num(call.args[2]),
                                                         Num(call.args[3]))]
    /\ UNCHANGED pipelineVars

CallWebMercatorToPixel ==
    /\ call.fn = "webMercatorToPixel" /\ ~call.done
    /\ call' = [call EXCEPT !.done = TRUE,
                            !.result = webMercatorToPixel(call.args[1], call.args[2])]
    /\ UNCHANGED pipelineVars

CallConvertRastersToPng ==
    /\ call.fn = "convertRastersToPng" /\ ~call.done
    /\ call' = [call EXCEPT !.done = TRUE,
                            !.result = convertRastersToPng(call.args[1], call.args[2],
                                                           call.args[3])]
    /\ UNCHANGED pipelineVars

NextFn ==
    \/ CallTileToWebMercator
    \/ CallWebMercatorToPixel
    \/ CallConvertRastersToPng

SpecFn == InitFn /\ [][NextFn]_vars

(* ------------------------- vocabulary of the claims -------------------- *)

Has(seq, s) == \E i \in 1..Len(seq) : seq[i] = s

NoDuplicates(seq) == \A i, j \in 1..Len(seq) : seq[i] = seq[j] => i = j

IsNumeric(box) == \A i \in 1..Len(box) : ~box[i].nan

\* the five stages of the specification among the steps a request started
StageNames == {"address", "window", "readRasters", "composite", "sharp"}

StageOrder == <<"address", "window", "readRasters", "composite", "sharp">>

StagesStarted == SelectSeq(started, LAMBDA s : s \in StageNames)

IsPrefix(p, q) == Len(p) <= Len(q) /\ \A i \in 1..Len(p) : p[i] = q[i]

\* the address of the request is malformed: no path parameters, a parameter
\* parseInt does not read as a number, or a negative zoom
BadAddress(ev) ==
    \/ ev.pathParameters.null
    \/ parseInt(ev.pathParameters.z).nan
    \/ parseInt(ev.pathParameters.x).nan
    \/ parseInt(ev.pathParameters.y).nan
    \/ parseInt(ev.pathParameters.z).v < 0

\* the box lies entirely outside the raster's extent (resolution n/d, d > 0)
OutsideRaster(box, img) ==
    LET r == imageResolutionOf(img) IN
    \/ box[3].v <= img.origin[1]
    \/ box[1].v * r.d >= img.origin[1] * r.d + img.width * r.n
    \/ box[2].v >= img.origin[2]
    \/ box[4].v * r.d <= img.origin[2] * r.d - img.height * r.n

ZeroArea(w) == IsNumeric(w) /\ (w[1].v = w[3].v \/ w[2].v = w[4].v)

\* the box is the raster's own full extent
FullExtent(box, img) ==
    LET r == imageResolutionOf(img) IN
    /\ r.d > 0
    /\ box[1].v = img.origin[1]
    /\ box[4].v = img.origin[2]
    /\ (box[3].v - img.origin[1]) * r.d = img.width * r.n
    /\ (img.origin[2] - box[2].v) * r.d = img.height * r.n

\* the errors each step can end a request with
ErrorsOf(step) ==
    CASE step = "address" -> {"TypeError"}
      [] step = "import" -> {"ImportError"}
      [] step = "signedUrl" -> {"SignedUrlError"}
      [] step = "fromUrl" -> {"FromUrlError"}
      [] step = "getImage" -> {"GetImageError", "Error"}
      [] step = "readRasters" -> {"ReadRastersError"}
      [] step = "composite" -> {"TypeError"}
      [] step = "sharp" -> {"SharpError"}
      [] OTHER -> {}

AllSteps ==
    <<"address", "import", "signedUrl", "fromUrl", "getImage", "readRasters",
      "composite", "sharp">>

(* --------------------------------- claims ------------------------------ *)

\* C1 (SpecFn): for zoom z >= 0 and integer column x and row y,
\* tileToWebMercator returns [minX, minY, maxX, maxY] with
\* resolution = 2*extent/(tileSize*2^z), minX = x*tileSize*resolution - extent,
\* maxX = (x+1)*tileSize*resolution - extent, maxY = extent - y*tileSize*resolution,
\* minY = extent - (y+1)*tileSize*resolution (stated cross-multiplied by 2^z);
\* minX < maxX, minY < maxY, the next row lies lower, and nothing is clamped.
C1_TileBBox ==
    (call.fn = "tileToWebMercator" /\ call.done /\ call.args[3] >= 0) =>
        LET x == call.args[1]
            y == call.args[2]
            z == call.args[3]
            out == call.result
            below == tileToWebMercator(Num(x), Num(y + 1), Num(z))
        IN /\ IsNumeric(out) /\ Len(out) = 4
           /\ getResolution(Num(z)).v * tileSize * Pow2(z) = 2 * webMercatorExtent
           /\ (out[1].v + webMercatorExtent) * Pow2(z) = x * 2 * webMercatorExtent
           /\ (out[3].v + webMercatorExtent) * Pow2(z) = (x + 1) * 2 * webMercatorExtent
           /\ (webMercatorExtent - out[4].v) * Pow2(z) = y * 2 * webMercatorExtent
           /\ (webMercatorExtent - out[2].v) * Pow2(z) = (y + 1) * 2 * webMercatorExtent
           /\ out[1].v < out[3].v
           /\ out[2].v < out[4].v
           /\ below[4].v < out[4].v /\ below[2].v < out[2].v
           /\ below[4].v = out[2].v

\* a tile outside the 2^z grid, below the equator of the plane
C1_Witness ==
    /\ call.fn = "tileToWebMercator" /\ call.done
    /\ call.args = <<-1, 3, 2>>
    /\ call.result = <<Num(-24), Num(-16), Num(-16), Num(-8)>>

\* C2 (stated as claimed): the stages run in the order address -> window ->
\* read -> composite -> encode, and the window handed to image.readRasters is
\* the pixel window webMercatorToPixel computes from the tile's bounding box.
C2_WindowResolvedBeforeRead ==
    /\ IsPrefix(StagesStarted, StageOrder)
    /\ Has(started, "readRasters") =>
           readWindow = webMercatorToPixel(webMercatorBbox, image)

\* C3 (SpecFn): for every bounding box and raster geometry, webMercatorToPixel
\* returns integers with 0 <= left <= right <= width and
\* 0 <= top <= bottom <= height.
C3_WindowClamped ==
    (call.fn = "webMercatorToPixel" /\ call.done) =>
        LET w == call.result
            img == call.args[2]
        IN /\ Len(w) = 4 /\ IsNumeric(w)
           /\ 0 <= w[1].v /\ w[1].v <= w[3].v /\ w[3].v <= img.width
           /\ 0 <= w[2].v /\ w[2].v <= w[4].v /\ w[4].v <= img.height

\* a box that sticks out on the left and the top and ends inside the raster
C3_Witness ==
    /\ call.fn = "webMercatorToPixel" /\ call.done
    /\ call.args[1][1].v < call.args[2].origin[1]
    /\ call.args[1][4].v > call.args[2].origin[2]
    /\ call.result[1].v = 0 /\ call.result[2].v = 0
    /\ 0 < call.result[3].v /\ call.result[3].v < call.args[2].width
    /\ 0 < call.result[4].v /\ call.result[4].v < call.args[2].height

\* C4 (SpecFn): webMercatorToPixel of the raster's own full extent is
\* (0, 0, rasterWidth, rasterHeight).
C4_FullExtent ==
    (call.fn = "webMercatorToPixel" /\ call.done
        /\ FullExtent(call.args[1], call.args[2])) =>
        call.result = <<Num(0), Num(0), Num(call.args[2].width), Num(call.args[2].height)>>

C4_Witness ==
    /\ call.fn = "webMercatorToPixel" /\ call.done
    /\ FullExtent(call.args[1], call.args[2])
    /\ call.args[2].width = 2 /\ call.args[2].height = 1
    /\ call.result[3].v = 2 /\ call.result[4].v = 1

\* C5 (stated as claimed): when the tile's bounding box lies entirely outside
\* the raster, so that the clamped window has zero area, no raster read is
\* issued for it and the request ends in the EmptyWindow outcome.
C5_EmptyWindowSignalled ==
    (/\ image.hasGeo
     /\ IsNumeric(webMercatorBbox)
     /\ OutsideRaster(webMercatorBbox, image)
     /\ ZeroArea(webMercatorToPixel(webMercatorBbox, image))) =>
        /\ ~Has(started, "readRasters")
        /\ pc = "done" => response.error = "EmptyWindow"

C7_BandLengthsValidated ==
    (Has(started, "composite") /\ NumBands(rasters) >= 3) =>
        /\ IsNumeric(readWindow)
        /\ \A b \in DOMAIN rasters : BandLen(rasters[b]) = WindowArea(readWindow)
        /\ \A k \in 0..2 : BandLen(rasters[k]) >= tileSize * tileSize

\* C8 (stated as claimed): a malformed address starts no raster access and
\* ends in a client-side (4xx) failure.
C8_BadAddressRejected ==
    BadAddress(event) =>
        /\ \A s \in {"import", "signedUrl", "fromUrl", "getImage", "readRasters"} :
             ~Has(started, s)
        /\ pc = "done" => response.statusCode \in 400..499

C10_FailurePropagates ==
    /\ NoDuplicates(started)
    /\ IsPrefix(started, AllSteps)
    /\ failed # "none" =>
         /\ pc = "done"
         /\ started[Len(started)] = failed
         /\ response.statusCode = 500
         /\ response.error \in ErrorsOf(failed)
         /\ ~pngBuffer.encoded
    /\ pc = "done" => response.statusCode \in {200, 500}
    /\ response.statusCode = 200 =>
         /\ pc = "done"
         /\ failed = "none"
         /\ started = AllSteps
         /\ response.error = "none"
         /\ response.contentType = "image/png"
         /\ response.body =
              Png(convertRastersToPng(rasters, tileSize, tileSize).rgbaBuffer,
                  tileSize, tileSize)

C10_Witness ==
    /\ failed = "readRasters"
    /\ pc = "done"
    /\ started = SubSeq(AllSteps, 1, 6)
    /\ response.statusCode = 500

====
